---- MODULE Spec2Model ----
(***************************************************************************)
(* goclassifyit: classification banners stamped above and below an image.  *)
(* The model follows src/main.go: main (flag validation and dispatch),     *)
(* processDirectory (the batch loop) and processImage (probe, decode,      *)
(* canvas, labels, create, encode), with the canvas kept pixel by pixel.   *)
(*                                                                         *)
(* Library behaviour the code relies on is modelled by what it does:       *)
(*   image.Rect        swaps its corners into canonical order;             *)
(*   image.NewRGBA     allocates transparent black pixels;                 *)
(*   draw.Draw (Src)   clips to the destination and source bounds, then    *)
(*                     overwrites;                                         *)
(*   image.Decode      knows the formats whose packages are imported;      *)
(*   png.Encode        rejects an image with a non-positive dimension;     *)
(*   Go's integer "/"  truncates toward zero.                              *)
(* The font is the embedded face at 36pt. Its metrics are inputs: the      *)
(* measured width of the label and the height of the ink above the         *)
(* baseline are drawn from small ranges, and the ink of one label is the   *)
(* box of that width and height standing on the baseline at the dot.       *)
(***************************************************************************)
EXTENDS Integers, Sequences, FiniteSets, TLC

\* ------------------------------------------------------------------ bounds

MaxWidth == 2
MaxHeight == 2
MaxBannerHeight == 19
MaxTextWidth == 2
MaxInkAscent == 2
MaxEntries == 3
MaxLayoutWidth == 21

\* The smallest banner height the inputs try (the -h flag is a signed int).
MinBannerHeight == 0 - 2

\* ------------------------------------------------------- program constants

DefaultBannerHeight == 60
BaselineOffset == 10

\* -------------------------------------------------------------- Go helpers

\* Go's integer division truncates toward zero (b > 0 here).
GoDiv(a, b) == IF a >= 0 THEN a \div b ELSE 0 - ((0 - a) \div b)

Min2(a, b) == IF a <= b THEN a ELSE b
Max2(a, b) == IF a >= b THEN a ELSE b

\* image.Rect: the corners are swapped where needed so the result is well-formed.
Rect(x0, y0, x1, y1) ==
    [MinX |-> Min2(x0, x1), MinY |-> Min2(y0, y1),
     MaxX |-> Max2(x0, x1), MaxY |-> Max2(y0, y1)]

Dx(r) == r.MaxX - r.MinX
Dy(r) == r.MaxY - r.MinY

\* The pixels of a rectangle (Max is exclusive).
Points(r) == (r.MinX .. (r.MaxX - 1)) \X (r.MinY .. (r.MaxY - 1))

Transparent == <<0, 0, 0, 0>>

\* image.NewRGBA: a zeroed pixel buffer over r.
NewRGBA(r) == [Rect |-> r, Pix |-> [p \in Points(r) |-> Transparent]]

\* draw.Draw(dst, r, &image.Uniform{c}, image.Point{}, draw.Src)
DrawUniform(dst, r, c) ==
    [dst EXCEPT !.Pix = [p \in DOMAIN dst.Pix |->
        IF p \in Points(r) THEN c ELSE dst.Pix[p]]]

\* draw.Draw(dst, r, src, sp, draw.Src): dst pixel p of r takes the source pixel
\* sp + (p - r.Min); r is clipped to the pixels both images have.
DrawImage(dst, r, src, sp) ==
    LET from(p) == <<sp[1] + (p[1] - r.MinX), sp[2] + (p[2] - r.MinY)>>
    IN  [dst EXCEPT !.Pix = [p \in DOMAIN dst.Pix |->
            IF p \in Points(r) /\ from(p) \in DOMAIN src.Pix
            THEN src.Pix[from(p)] ELSE dst.Pix[p]]]

\* ------------------------------------------------------------ banner modes

NoBanner == [BgColor |-> Transparent, TextColor |-> Transparent, Text |-> ""]

BannerCui ==
    [BgColor |-> <<0, 255, 0, 255>>, TextColor |-> <<0, 0, 0, 255>>, Text |-> "CUI"]
BannerSecret ==
    [BgColor |-> <<255, 0, 0, 255>>, TextColor |-> <<255, 255, 255, 255>>,
     Text |-> "SECRET"]
BannerUnclassed ==
    [BgColor |-> <<0, 0, 0, 255>>, TextColor |-> <<255, 255, 255, 255>>,
     Text |-> "UNCLASSIFIED"]
BannerCustomDefault ==
    [BgColor |-> <<255, 255, 255, 255>>, TextColor |-> <<0, 0, 0, 255>>,
     Text |-> "CUSTOM"]

PresetNames == {"cui", "secret", "unclassed", "custom"}

\* A faulty variant of bannerModes: "secret" carries the text colour of "cui".
bannerModesDarkSecret(name) ==
    CASE name = "cui" -> BannerCui
      [] name = "secret" -> [BannerSecret EXCEPT !.TextColor = BannerCui.TextColor]
      [] name = "unclassed" -> BannerUnclassed
      [] name = "custom" -> BannerCustomDefault

\* var bannerModes: the modes a classification keyword looks up.
bannerModes(name) ==
    CASE name = "cui" -> BannerCui
      [] name = "secret" -> BannerSecret
      [] name = "unclassed" -> BannerUnclassed
      [] name = "custom" -> BannerCustomDefault

\* ---------------------------------------------------------------- parseRGB

\* A flag's text is the sequence of its characters.
DigitChars == {"0", "1", "2", "3", "4", "5", "6", "7", "8", "9"}

DigitValue(ch) ==
    CASE ch = "0" -> 0 [] ch = "1" -> 1 [] ch = "2" -> 2 [] ch = "3" -> 3
      [] ch = "4" -> 4 [] ch = "5" -> 5 [] ch = "6" -> 6 [] ch = "7" -> 7
      [] ch = "8" -> 8 [] ch = "9" -> 9

\* fmt's SkipSpace: the blanks before a number are dropped.
RECURSIVE SkipSpace(_)
SkipSpace(str) ==
    IF str # <<>> /\ Head(str) = " " THEN SkipSpace(Tail(str)) ELSE str

\* The digits at the front of str, read as a decimal number on top of acc.
RECURSIVE ScanDigits(_, _, _)
ScanDigits(str, acc, n) ==
    IF str # <<>> /\ Head(str) \in DigitChars
    THEN ScanDigits(Tail(str), 10 * acc + DigitValue(Head(str)), n + 1)
    ELSE [val |-> acc, digits |-> n, rest |-> str]

\* The verb %d: blanks, an optional sign, then at least one digit.
ScanInt(str) ==
    LET s1 == SkipSpace(str)
        signed == s1 # <<>> /\ Head(s1) \in {"+", "-"}
        s2 == IF signed THEN Tail(s1) ELSE s1
        d == ScanDigits(s2, 0, 0)
    IN  [ok |-> d.digits > 0,
         val |-> IF signed /\ Head(s1) = "-" THEN 0 - d.val ELSE d.val,
         rest |-> d.rest]

\* A literal character of the format must be the next character of the input.
ScanLiteral(str, ch) ==
    [ok |-> str # <<>> /\ Head(str) = ch,
     rest |-> IF str # <<>> THEN Tail(str) ELSE str]

\* fmt.Sscanf(str, "%d,%d,%d", &r, &g, &b): what follows the third number is
\* not looked at.
Sscanf3(str) ==
    LET r == ScanInt(str)
        c1 == ScanLiteral(r.rest, ",")
        g == ScanInt(c1.rest)
        c2 == ScanLiteral(g.rest, ",")
        b == ScanInt(c2.rest)
    IN  [ok |-> r.ok /\ c1.ok /\ g.ok /\ c2.ok /\ b.ok,
         r |-> r.val, g |-> g.val, b |-> b.val]

\* A faulty variant of parseRGB: the channels are converted without the range check.
parseRGBUnchecked(str) ==
    LET v == Sscanf3(str)
    IN  IF ~v.ok THEN [err |-> TRUE, col |-> Transparent]
        ELSE [err |-> FALSE, col |-> <<v.r, v.g, v.b, 255>>]

\* parseRGB: the colour, or an error for a text that does not scan or a channel
\* outside 0..255.
parseRGB(str) ==
    LET v == Sscanf3(str)
        inRange(n) == 0 <= n /\ n <= 255
    IN  IF ~v.ok THEN [err |-> TRUE, col |-> Transparent]
        ELSE IF ~(inRange(v.r) /\ inRange(v.g) /\ inRange(v.b))
        THEN [err |-> TRUE, col |-> Transparent]
        ELSE [err |-> FALSE, col |-> <<v.r, v.g, v.b, 255>>]

\* ------------------------------------------------------------- input files

\* The formats image.Decode knows: the packages main.go imports.
RegisteredFormats == {"jpeg", "png"}

ImageKinds == {"jpeg", "png", "gif"}

\* A file of the input directory: an image of some format, bytes that are no
\* image ("corrupt"), or a sub-directory ("dir").
ImageFile(kind, w, h) == [kind |-> kind, w |-> w, h |-> h]
CorruptFile == [kind |-> "corrupt", w |-> 0, h |-> 0]
SubDir == [kind |-> "dir", w |-> 0, h |-> 0]
Missing == [kind |-> "missing", w |-> 0, h |-> 0]
\* A file that os.Create has truncated and nothing was written to.
EmptyFile == [kind |-> "empty", w |-> 0, h |-> 0]

\* The decoded pixels of an image file: every pixel its own colour, and a PNG
\* carrying an alpha channel.
SourcePixel(kind, x, y) == <<10 + x, 20 + y, 30, IF kind = "png" THEN 128 ELSE 255>>

SourceImage(f) ==
    [Rect |-> Rect(0, 0, f.w, f.h),
     Pix |-> [p \in Points(Rect(0, 0, f.w, f.h)) |-> SourcePixel(f.kind, p[1], p[2])]]

NoImage == [Rect |-> Rect(0, 0, 0, 0), Pix |-> [p \in {} |-> Transparent]]

\* The pixels of a file this run has encoded (it carries them as pix): as they
\* were written, and opaque when read back from a JPEG, which stores no alpha.
EncodedImage(f) ==
    [Rect |-> Rect(0, 0, f.w, f.h),
     Pix |-> [p \in DOMAIN f.pix |->
                IF f.kind = "jpeg" THEN <<f.pix[p][1], f.pix[p][2], f.pix[p][3], 255>>
                ELSE f.pix[p]]]

\* image.Decode: the image and its format name, or an error.
Decode(f) ==
    IF f.kind \in RegisteredFormats
    THEN [err |-> FALSE, format |-> f.kind,
          img |-> IF "pix" \in DOMAIN f THEN EncodedImage(f) ELSE SourceImage(f)]
    ELSE [err |-> TRUE, format |-> "", img |-> NoImage]

\* The format check of processImage.
SupportedFormat(format) == format = "jpeg" \/ format = "png"

\* ------------------------------------------------------------ the canvas

\* newHeight := height + 2*bannerHeight
NewHeight(height, bh) == height + 2 * bh

\* The banner rectangles and the rectangle the source is copied to.
TopBanner(width, bh) == Rect(0, 0, width, bh)
\* A faulty variant of BottomBanner: the bottom banner starts one row late.
BottomBannerShifted(width, newHeight, bh) == Rect(0, newHeight - bh + 1, width, newHeight)
BottomBanner(width, newHeight, bh) == Rect(0, newHeight - bh, width, newHeight)
ImageBand(width, height, bh) == Rect(0, bh, width, bh + height)

\* The canvas of processImage before any label: allocated, both banners filled
\* with the background colour, the source drawn between them.
BuildCanvas(src, bm, bh) ==
    LET width == Dx(src.Rect)
        height == Dy(src.Rect)
        newHeight == NewHeight(height, bh)
        c0 == NewRGBA(Rect(0, 0, width, newHeight))
        c1 == DrawUniform(c0, TopBanner(width, bh), bm.BgColor)
        c2 == DrawUniform(c1, BottomBanner(width, newHeight, bh), bm.BgColor)
    IN  DrawImage(c2, ImageBand(width, height, bh), src,
                  <<src.Rect.MinX, src.Rect.MinY>>)

\* ------------------------------------------------------------- the labels

\* A faulty variant of MarginX: the product is rounded to the nearest integer.
MarginXRounded(width) == GoDiv(5 * width + 50, 100)

\* marginX := int(0.05 * float64(width)): the conversion truncates.
MarginX(width) == GoDiv(5 * width, 100)

\* topY := bannerHeight/2 + 10
TopY(bh) == GoDiv(bh, 2) + BaselineOffset

\* botY := (newHeight - bannerHeight/2) + 10
BotY(newHeight, bh) == (newHeight - GoDiv(bh, 2)) + BaselineOffset

\* A faulty variant of CenterX: a label wider than the image is moved to x = 0.
CenterXClamped(width, txtWidth) == Max2(0, GoDiv(width, 2) - GoDiv(txtWidth, 2))

\* centerX := width/2 - (txtWidth / 2)
CenterX(width, txtWidth) == GoDiv(width, 2) - GoDiv(txtWidth, 2)

CornerLabels(width, newHeight, bh, txtWidth) ==
    << <<MarginX(width), TopY(bh)>>,
       <<width - MarginX(width) - txtWidth, TopY(bh)>>,
       <<MarginX(width), BotY(newHeight, bh)>>,
       <<width - MarginX(width) - txtWidth, BotY(newHeight, bh)>> >>

CenterLabels(width, newHeight, bh, txtWidth) ==
    << <<CenterX(width, txtWidth), TopY(bh)>>,
       <<CenterX(width, txtWidth), BotY(newHeight, bh)>> >>

\* A faulty variant of LabelPositions: a string that is neither mode draws nothing.
LabelPositionsStrict(l, width, newHeight, bh, txtWidth) ==
    CASE l = "corners" -> CornerLabels(width, newHeight, bh, txtWidth)
      [] l = "center" -> CenterLabels(width, newHeight, bh, txtWidth)
      [] OTHER -> <<>>

\* The switch on loc: the dots of the addLabel calls, in call order.
LabelPositions(l, width, newHeight, bh, txtWidth) ==
    CASE l = "corners" -> CornerLabels(width, newHeight, bh, txtWidth)
      [] OTHER -> CenterLabels(width, newHeight, bh, txtWidth)

\* The pixels one label inks: txtWidth columns from the dot, ascent rows
\* standing on the baseline y.
InkBox(x, y, txtWidth, ascent) == (x .. (x + txtWidth - 1)) \X ((y - ascent) .. (y - 1))

\* addLabel: the glyphs drawn over the canvas in the (opaque) text colour,
\* clipped to the canvas.
addLabel(canvas, x, y, col, txtWidth, ascent) ==
    [canvas EXCEPT !.Pix = [p \in DOMAIN canvas.Pix |->
        IF p \in InkBox(x, y, txtWidth, ascent) THEN col ELSE canvas.Pix[p]]]

RECURSIVE DrawLabels(_, _, _, _, _)
DrawLabels(canvas, dots, col, txtWidth, ascent) ==
    IF dots = <<>> THEN canvas
    ELSE DrawLabels(addLabel(canvas, Head(dots)[1], Head(dots)[2], col, txtWidth, ascent),
                    Tail(dots), col, txtWidth, ascent)

\* Every pixel some label of dots inks.
Ink(dots, txtWidth, ascent) ==
    UNION {InkBox(dots[i][1], dots[i][2], txtWidth, ascent) : i \in DOMAIN dots}

\* ------------------------------------------------------------ the encoders

\* A faulty variant of EncoderFor: every image goes to the png encoder.
EncoderAlwaysPng(fmt) == "png"

\* The switch on format that picks the encoder.
EncoderFor(fmt) ==
    CASE fmt = "jpeg" -> "jpeg"
      [] fmt = "png" -> "png"
      [] OTHER -> "none"

\* jpeg.Encode and png.Encode: png rejects a non-positive dimension; with no
\* encoder chosen nothing is written and err stays nil.
EncodeFails(encoder, canvas) ==
    encoder = "png" /\ (Dx(canvas.Rect) <= 0 \/ Dy(canvas.Rect) <= 0)

\* ---------------------------------------------------------- the file system

Name(i) == <<"file", i>>
ProbeName == <<"test_write.tmp", 0>>

Absent == [state |-> "absent", format |-> "", img |-> NoImage]
Empty == [state |-> "empty", format |-> "", img |-> NoImage]
Written(fmt, canvas) == [state |-> "image", format |-> fmt, img |-> canvas]
\* A file (or sub-directory) f that was in the directory before the run.
Stored(f) == [state |-> "stored", format |-> f.kind, img |-> SourceImage(f)]

\* What opening an entry of the output directory finds.
FileOf(o) ==
    CASE o.state = "absent" -> Missing
      [] o.state = "empty" -> EmptyFile
      [] o.state = "stored" ->
            [kind |-> o.format, w |-> Dx(o.img.Rect), h |-> Dy(o.img.Rect)]
      [] o.state = "image" ->
            [kind |-> o.format, w |-> Dx(o.img.Rect), h |-> Dy(o.img.Rect),
             pix |-> o.img.Pix]

\* ------------------------------------------------------------------ state

VARIABLES
    \* the environment: the input directory at the start (in listing order, with
    \* the names of its entries) and what its path names, the output directory,
    \* and what the embedded font measures and inks
    inFiles, inNames, dirKind, outExists, outWritable, outFiles, textWidth, inkAscent,
    \* the command line of main, its position and the exit code
    flags, mpc, exitCode,
    \* the arguments main hands on: banner, outputDir ("in" when -o names the
    \* input directory, "out" for any other), bannerHeight, loc
    banner, outputDir, bannerHeight, loc,
    \* processDirectory: position, the listing, the loop index, hasErrors, its
    \* result, and what it attempted and printed
    dpc, files, idx, hasErrors, dirErr, attempts, errorLines, okLines,
    \* processImage: position, imagePath, format, img, newImg, the dots of
    \* the addLabel calls made, its result, and the font faces constructed
    pc, imagePath, format, img, newImg, labels, err, fontLoads

envVars == <<inFiles, inNames, dirKind, outExists, outWritable, outFiles, textWidth, inkAscent>>
mainVars == <<flags, mpc, exitCode>>
argVars == <<banner, outputDir, bannerHeight, loc>>
dirVars == <<dpc, files, idx, hasErrors, dirErr, attempts, errorLines, okLines>>
imgVars == <<pc, imagePath, format, img, newImg, labels, err, fontLoads>>
vars == <<envVars, mainVars, argVars, dirVars, imgVars>>

\* The file imagePath names now: entry i of the input directory is
\* inNames[i], and where that directory is the output directory too, its
\* entries are the ones outFiles holds.
FileAt(path) ==
    IF outputDir = "in"
    THEN IF path \in DOMAIN outFiles THEN FileOf(outFiles[path]) ELSE Missing
    ELSE IF \E i \in DOMAIN inNames : inNames[i] = path
         THEN inFiles[CHOOSE i \in DOMAIN inNames : inNames[i] = path]
         ELSE Missing

\* --------------------------------------------------------------- processImage

\* processImage returns e.
Return(e) ==
    /\ err' = e
    /\ pc' = "done"

\* os.Create(testFile) fails on a directory of that name, and in a directory
\* that is not writable unless the file is there already.
ProbeFails(old) ==
    \/ (old.state = "stored" /\ old.format = "dir")
    \/ (old = Absent /\ ~outWritable)

\* What is left of test_write.tmp after os.Create truncated it and os.Remove
\* was called (its error, in a directory that is not writable, is dropped).
AfterProbe == IF outWritable THEN Absent ELSE Empty

\* The writability probe: when the output directory exists, test_write.tmp is
\* created in it and removed again.
PI_Probe ==
    /\ pc = "probe"
    /\ IF outExists /\ ProbeFails(outFiles[ProbeName])
       THEN /\ Return("not writable")
            /\ UNCHANGED outFiles
       ELSE /\ outFiles' = IF outExists
                           THEN [outFiles EXCEPT ![ProbeName] = AfterProbe]
                           ELSE outFiles
            /\ pc' = "open"
            /\ UNCHANGED err
    /\ UNCHANGED <<inFiles, inNames, dirKind, outExists, outWritable, textWidth, inkAscent>>
    /\ UNCHANGED <<mainVars, argVars, dirVars>>
    /\ UNCHANGED <<imagePath, format, img, newImg, labels, fontLoads>>

\* os.Open, image.Decode and the format check.
PI_Decode ==
    /\ pc = "open"
    /\ LET f == FileAt(imagePath)
           d == Decode(f)
       IN  IF f.kind = "missing"
           THEN Return("open") /\ UNCHANGED <<format, img>>
           ELSE IF d.err
           THEN Return("decode") /\ UNCHANGED <<format, img>>
           ELSE IF ~SupportedFormat(d.format)
           THEN Return("unsupported format") /\ format' = d.format /\ img' = d.img
           ELSE /\ format' = d.format
                /\ img' = d.img
                /\ pc' = "canvas"
                /\ UNCHANGED err
    /\ UNCHANGED <<envVars, mainVars, argVars, dirVars>>
    /\ UNCHANGED <<imagePath, newImg, labels, fontLoads>>

\* The canvas is allocated, the banners are filled and the source is drawn.
PI_Canvas ==
    /\ pc = "canvas"
    /\ newImg' = BuildCanvas(img, banner, bannerHeight)
    /\ pc' = "labels"
    /\ UNCHANGED <<envVars, mainVars, argVars, dirVars>>
    /\ UNCHANGED <<imagePath, format, img, labels, err, fontLoads>>

\* loadFontFace(36), then the labels of the placement mode.
PI_Labels ==
    /\ pc = "labels"
    /\ fontLoads' = fontLoads + 1
    /\ LET width == Dx(img.Rect)
           newHeight == NewHeight(Dy(img.Rect), bannerHeight)
           dots == LabelPositions(loc, width, newHeight, bannerHeight, textWidth)
       IN  /\ labels' = dots
           /\ newImg' = DrawLabels(newImg, dots, banner.TextColor, textWidth, inkAscent)
    /\ pc' = "create"
    /\ UNCHANGED <<envVars, mainVars, argVars, dirVars>>
    /\ UNCHANGED <<imagePath, format, img, err>>

\* os.Create(outputPath) fails on a directory of that name, and in a directory
\* that is not writable unless the file is there already.
CreateFails(old) ==
    \/ (old.state = "stored" /\ old.format = "dir")
    \/ (old = Absent /\ outExists /\ ~outWritable)

\* os.MkdirAll and os.Create of the output path (the base name of imagePath).
PI_Create ==
    /\ pc = "create"
    /\ outExists' = TRUE
    /\ IF CreateFails(outFiles[imagePath])
       THEN /\ Return("create")
            /\ UNCHANGED outFiles
       ELSE /\ outFiles' = [outFiles EXCEPT ![imagePath] = Empty]
            /\ pc' = "encode"
            /\ UNCHANGED err
    /\ UNCHANGED <<inFiles, inNames, dirKind, outWritable, textWidth, inkAscent>>
    /\ UNCHANGED <<mainVars, argVars, dirVars>>
    /\ UNCHANGED <<imagePath, format, img, newImg, labels, fontLoads>>

\* The canvas is encoded, in the format decoded, into the file created.
PI_Encode ==
    /\ pc = "encode"
    /\ LET encoder == EncoderFor(format)
       IN  IF EncodeFails(encoder, newImg)
           THEN Return("encode") /\ UNCHANGED outFiles
           ELSE /\ outFiles' = IF encoder = "none" THEN outFiles
                               ELSE [outFiles EXCEPT ![imagePath] = Written(encoder, newImg)]
                /\ Return("")
    /\ UNCHANGED <<inFiles, inNames, dirKind, outExists, outWritable, textWidth, inkAscent>>
    /\ UNCHANGED <<mainVars, argVars, dirVars>>
    /\ UNCHANGED <<imagePath, format, img, newImg, labels, fontLoads>>

\* ----------------------------------------------------------- processDirectory

\* processImage is entered on path with fresh locals.
CallProcessImage(path) ==
    /\ pc' = "probe"
    /\ imagePath' = path
    /\ format' = ""
    /\ img' = NoImage
    /\ newImg' = NoImage
    /\ labels' = <<>>
    /\ err' = ""
    /\ UNCHANGED fontLoads

\* os.ReadDir: the entries of the directory, each with its name and IsDir.
ReadDir(entries) ==
    [i \in DOMAIN entries |-> [name |-> inNames[i], isDir |-> entries[i].kind = "dir"]]

PD_List ==
    /\ dpc = "list"
    /\ IF dirKind # "dir"
       THEN /\ dirErr' = "failed to read directory"
            /\ dpc' = "done"
            /\ UNCHANGED <<files, idx>>
       ELSE /\ files' = ReadDir(inFiles)
            /\ idx' = 1
            /\ dpc' = "loop"
            /\ UNCHANGED dirErr
    /\ UNCHANGED <<hasErrors, attempts, errorLines, okLines>>
    /\ UNCHANGED <<envVars, mainVars, argVars, imgVars>>

\* An entry that is a directory is passed over.
PD_Skip ==
    /\ dpc = "loop"
    /\ idx <= Len(files)
    /\ files[idx].isDir
    /\ idx' = idx + 1
    /\ UNCHANGED <<dpc, files, hasErrors, dirErr, attempts, errorLines, okLines>>
    /\ UNCHANGED <<envVars, mainVars, argVars, imgVars>>

\* Any other entry is handed to processImage.
PD_Call ==
    /\ dpc = "loop"
    /\ idx <= Len(files)
    /\ ~files[idx].isDir
    /\ CallProcessImage(files[idx].name)
    /\ attempts' = [attempts EXCEPT ![idx] = @ + 1]
    /\ dpc' = "call"
    /\ UNCHANGED <<files, idx, hasErrors, dirErr, errorLines, okLines>>
    /\ UNCHANGED <<envVars, mainVars, argVars>>

\* processImage has returned: a failure is printed and remembered, and the
\* loop goes on with the next entry.
PD_Result ==
    /\ dpc = "call"
    /\ pc = "done"
    /\ IF err # ""
       THEN /\ errorLines' = errorLines + 1
            /\ hasErrors' = TRUE
            /\ UNCHANGED okLines
       ELSE /\ okLines' = okLines + 1
            /\ UNCHANGED <<errorLines, hasErrors>>
    /\ idx' = idx + 1
    /\ dpc' = "loop"
    /\ pc' = "idle"
    /\ UNCHANGED <<files, dirErr, attempts>>
    /\ UNCHANGED <<envVars, mainVars, argVars>>
    /\ UNCHANGED <<imagePath, format, img, newImg, labels, err, fontLoads>>

\* A faulty variant of DirResult: the failures of the loop are forgotten.
DirResultNil(failed) == ""

\* The value processDirectory returns after the loop.
DirResult(failed) == IF failed THEN "some images failed to process" ELSE ""

\* After the last entry: an error when some image failed.
PD_Return ==
    /\ dpc = "loop"
    /\ idx > Len(files)
    /\ dirErr' = DirResult(hasErrors)
    /\ dpc' = "done"
    /\ UNCHANGED <<files, idx, hasErrors, attempts, errorLines, okLines>>
    /\ UNCHANGED <<envVars, mainVars, argVars, imgVars>>

\* ----------------------------------------------------------------------- main

\* os.Exit(code)
Exit(code) ==
    /\ exitCode' = code
    /\ mpc' = "exited"

\* A faulty variant of ResolveBanner: the two colours of a custom banner are
\* exchanged.
ResolveBannerSwapped(fl) ==
    LET bg == parseRGB(fl.bg)
        tc == parseRGB(fl.tc)
    IN  IF fl.c = "" THEN [ok |-> FALSE, banner |-> NoBanner]
        ELSE IF fl.c = "custom"
        THEN IF bg.err \/ tc.err \/ fl.text = ""
             THEN [ok |-> FALSE, banner |-> NoBanner]
             ELSE [ok |-> TRUE,
                   banner |-> [BgColor |-> tc.col, TextColor |-> bg.col, Text |-> fl.text]]
        ELSE IF fl.c \in PresetNames
        THEN [ok |-> TRUE, banner |-> bannerModes(fl.c)]
        ELSE [ok |-> FALSE, banner |-> NoBanner]

\* A faulty variant of ResolveBanner: a custom banner is built without asking
\* for -text.
ResolveBannerNoTextCheck(fl) ==
    LET bg == parseRGB(fl.bg)
        tc == parseRGB(fl.tc)
    IN  IF fl.c = "" THEN [ok |-> FALSE, banner |-> NoBanner]
        ELSE IF fl.c = "custom"
        THEN IF bg.err \/ tc.err
             THEN [ok |-> FALSE, banner |-> NoBanner]
             ELSE [ok |-> TRUE,
                   banner |-> [BgColor |-> bg.col, TextColor |-> tc.col, Text |-> fl.text]]
        ELSE IF fl.c \in PresetNames
        THEN [ok |-> TRUE, banner |-> bannerModes(fl.c)]
        ELSE [ok |-> FALSE, banner |-> NoBanner]

\* The banner of the classification flag: built from the custom flags, or
\* looked up among the modes. ok is false where main exits instead.
ResolveBanner(fl) ==
    LET bg == parseRGB(fl.bg)
        tc == parseRGB(fl.tc)
    IN  IF fl.c = "" THEN [ok |-> FALSE, banner |-> NoBanner]
        ELSE IF fl.c = "custom"
        THEN IF bg.err \/ tc.err \/ fl.text = ""
             THEN [ok |-> FALSE, banner |-> NoBanner]
             ELSE [ok |-> TRUE,
                   banner |-> [BgColor |-> bg.col, TextColor |-> tc.col, Text |-> fl.text]]
        ELSE IF fl.c \in PresetNames
        THEN [ok |-> TRUE, banner |-> bannerModes(fl.c)]
        ELSE [ok |-> FALSE, banner |-> NoBanner]

\* A faulty variant of OneInput: only the case of no input at all is turned down.
OneInputLax(fl) == ~(fl.f = "" /\ fl.d = "")

\* Exactly one of -f and -d is given.
OneInput(fl) == ~((fl.f = "" /\ fl.d = "") \/ (fl.f # "" /\ fl.d # ""))

\* The flags are validated: main exits with 1, or goes on with the banner.
MainParse ==
    /\ mpc = "start"
    /\ LET b == ResolveBanner(flags)
       IN  IF ~b.ok \/ ~OneInput(flags)
           THEN Exit(1) /\ UNCHANGED banner
           ELSE /\ banner' = b.banner
                /\ mpc' = "file"
                /\ UNCHANGED exitCode
    /\ UNCHANGED <<flags, outputDir, bannerHeight, loc>>
    /\ UNCHANGED <<envVars, dirVars, imgVars>>

\* -f: a path that does not exist ends main, any other is processed.
MainFileMode ==
    /\ mpc = "file"
    /\ flags.f # ""
    /\ IF FileAt(Name(1)).kind = "missing"
       THEN Exit(1) /\ UNCHANGED imgVars
       ELSE /\ CallProcessImage(Name(1))
            /\ mpc' = "fileCall"
            /\ UNCHANGED exitCode
    /\ UNCHANGED <<flags, argVars, envVars, dirVars>>

MainFileDone ==
    /\ mpc = "fileCall"
    /\ pc = "done"
    /\ IF err # ""
       THEN Exit(1)
       ELSE mpc' = "dir" /\ UNCHANGED exitCode
    /\ pc' = "idle"
    /\ UNCHANGED <<flags, argVars, envVars, dirVars>>
    /\ UNCHANGED <<imagePath, format, img, newImg, labels, err, fontLoads>>

\* -d: a path that does not exist ends main, any other is listed.
MainDirMode ==
    /\ (mpc = "file" /\ flags.f = "") \/ mpc = "dir"
    /\ flags.d # ""
    /\ IF dirKind = "missing"
       THEN Exit(1) /\ UNCHANGED dpc
       ELSE /\ dpc' = "list"
            /\ mpc' = "dirCall"
            /\ UNCHANGED exitCode
    /\ UNCHANGED <<files, idx, hasErrors, dirErr, attempts, errorLines, okLines>>
    /\ UNCHANGED <<flags, argVars, envVars, imgVars>>

MainDirDone ==
    /\ mpc = "dirCall"
    /\ dpc = "done"
    /\ IF dirErr # "" THEN Exit(1) ELSE Exit(0)
    /\ UNCHANGED <<flags, argVars, envVars, dirVars, imgVars>>

\* main returns after the file mode.
MainEnd ==
    /\ (mpc = "file" /\ flags.f = "") \/ mpc = "dir"
    /\ flags.d = ""
    /\ Exit(0)
    /\ UNCHANGED <<flags, argVars, envVars, dirVars, imgVars>>

\* ------------------------------------------------------------------ inputs

Placements == {"center", "corners", "diagonal"}

BannerHeights == (MinBannerHeight .. MaxBannerHeight) \cup {DefaultBannerHeight}

ImageFiles ==
    {ImageFile(k, w, h) : k \in ImageKinds, w \in 1 .. MaxWidth, h \in 1 .. MaxHeight}

OutNames == {Name(i) : i \in 1 .. MaxEntries} \cup {ProbeName}

NoFlags == [c |-> "", f |-> "", d |-> "", text |-> "", bg |-> <<>>, tc |-> <<>>]

\* The names of a directory whose entries are file1, file2, ...
DefaultNames(entries) == [i \in DOMAIN entries |-> Name(i)]

\* What test_write.tmp holds where a file of that name is there before the run.
OldProbe == Stored(CorruptFile)

\* The output directory: missing, there and writable, or there and read-only.
InitOutput ==
    /\ outExists \in BOOLEAN
    /\ outWritable \in BOOLEAN
    /\ ~outExists => outWritable
    /\ outFiles = [n \in OutNames |-> Absent]

InitFont ==
    /\ textWidth \in 0 .. MaxTextWidth
    /\ inkAscent \in 1 .. MaxInkAscent

MainIdle ==
    /\ flags = NoFlags
    /\ mpc = "idle"
    /\ exitCode = 0 - 1

DirIdle ==
    /\ dpc = "idle"
    /\ files = <<>>
    /\ idx = 0
    /\ hasErrors = FALSE
    /\ dirErr = ""
    /\ attempts = [i \in 1 .. MaxEntries |-> 0]
    /\ errorLines = 0
    /\ okLines = 0

ImageIdle ==
    /\ pc = "idle"
    /\ imagePath = Name(0)
    /\ format = ""
    /\ img = NoImage
    /\ newImg = NoImage
    /\ labels = <<>>
    /\ err = ""
    /\ fontLoads = 0

\* The output directory of one call: as InitOutput, or there with a file
\* named test_write.tmp in it.
InitOutputOld ==
    /\ outExists \in BOOLEAN
    /\ outWritable \in BOOLEAN
    /\ ~outExists => outWritable
    /\ outFiles \in {[n \in OutNames |-> Absent]} \cup
                    (IF outExists
                     THEN {[n \in OutNames |-> IF n = ProbeName THEN OldProbe ELSE Absent]}
                     ELSE {})

\* One call of processImage on one path: any file, any banner height, any
\* placement string.
InitImage ==
    /\ inFiles \in {<<>>} \cup {<<f>> : f \in ImageFiles \cup {CorruptFile, SubDir}}
    /\ inNames = DefaultNames(inFiles)
    /\ dirKind = "dir"
    /\ InitOutputOld
    /\ InitFont
    /\ MainIdle
    /\ banner \in {BannerCui, BannerSecret}
    /\ outputDir = "out"
    /\ bannerHeight \in BannerHeights
    /\ loc \in Placements
    /\ DirIdle
    /\ pc = "probe"
    /\ imagePath = Name(1)
    /\ format = ""
    /\ img = NoImage
    /\ newImg = NoImage
    /\ labels = <<>>
    /\ err = ""
    /\ fontLoads = 0

NextImage ==
    \/ PI_Probe
    \/ PI_Decode
    \/ PI_Canvas
    \/ PI_Labels
    \/ PI_Create
    \/ PI_Encode

SpecImage == InitImage /\ [][NextImage]_vars

\* One call of processImage on an image wide enough for a margin: the widths
\* up to MaxLayoutWidth, one row high, under low banners.
LayoutBannerHeights == {1, 2}

InitLayout ==
    /\ inFiles \in {<<ImageFile(k, w, 1)>> : k \in {"jpeg", "png"}, w \in 1 .. MaxLayoutWidth}
    /\ inNames = DefaultNames(inFiles)
    /\ dirKind = "dir"
    /\ InitOutput
    /\ InitFont
    /\ MainIdle
    /\ banner = BannerUnclassed
    /\ outputDir = "out"
    /\ bannerHeight \in LayoutBannerHeights
    /\ loc \in Placements
    /\ DirIdle
    /\ pc = "probe"
    /\ imagePath = Name(1)
    /\ format = ""
    /\ img = NoImage
    /\ newImg = NoImage
    /\ labels = <<>>
    /\ err = ""
    /\ fontLoads = 0

SpecLayout == InitLayout /\ [][NextImage]_vars

\* A batch: processDirectory over a directory of up to MaxEntries entries.
BatchFiles ==
    {ImageFile("png", 1, 2), ImageFile("jpeg", 1, 1), ImageFile("gif", 1, 1),
     CorruptFile, SubDir}

RECURSIVE Listings(_)
Listings(n) ==
    IF n = 0 THEN {<<>>}
    ELSE Listings(n - 1) \cup
         {Append(l, f) : l \in {m \in Listings(n - 1) : Len(m) = n - 1}, f \in BatchFiles}

BatchBannerHeights == {0 - 1, 1, DefaultBannerHeight}

InitBatch ==
    /\ dirKind \in {"dir", "file"}
    /\ inFiles \in (IF dirKind = "dir" THEN Listings(MaxEntries) ELSE {<<>>})
    /\ inNames = DefaultNames(inFiles)
    /\ InitOutput
    /\ textWidth = 1
    /\ inkAscent = 1
    /\ MainIdle
    /\ banner = BannerCui
    /\ outputDir = "out"
    /\ bannerHeight \in BatchBannerHeights
    /\ loc \in {"center", "corners"}
    /\ dpc = "list"
    /\ files = <<>>
    /\ idx = 0
    /\ hasErrors = FALSE
    /\ dirErr = ""
    /\ attempts = [i \in 1 .. MaxEntries |-> 0]
    /\ errorLines = 0
    /\ okLines = 0
    /\ ImageIdle

NextBatch ==
    \/ PD_List
    \/ PD_Skip
    \/ PD_Call
    \/ PD_Result
    \/ PD_Return
    \/ PI_Probe
    \/ PI_Decode
    \/ PI_Canvas
    \/ PI_Labels
    \/ PI_Create
    \/ PI_Encode

SpecBatch == InitBatch /\ [][NextBatch]_vars

\* A batch whose output directory may be the input directory itself (-o and -d
\* naming one directory). os.ReadDir lists by name, so a file named
\* test_write.tmp comes after file1, file2, ...: it is the last entry.
NameLists(entries) ==
    {DefaultNames(entries)} \cup
    (IF entries = <<>> THEN {}
     ELSE {[DefaultNames(entries) EXCEPT ![Len(entries)] = ProbeName]})

\* The entries of the input directory, seen as files of the output directory.
SharedFiles ==
    [n \in OutNames |->
        IF \E i \in DOMAIN inNames : inNames[i] = n
        THEN Stored(inFiles[CHOOSE i \in DOMAIN inNames : inNames[i] = n])
        ELSE Absent]

InitShared ==
    /\ dirKind = "dir"
    /\ inFiles \in Listings(MaxEntries)
    /\ inNames \in NameLists(inFiles)
    /\ outputDir \in {"in", "out"}
    /\ outExists = TRUE
    /\ outWritable \in BOOLEAN
    /\ outFiles = IF outputDir = "in" THEN SharedFiles ELSE [n \in OutNames |-> Absent]
    /\ textWidth = 1
    /\ inkAscent = 1
    /\ MainIdle
    /\ banner = BannerCui
    /\ bannerHeight \in BatchBannerHeights
    /\ loc \in {"center", "corners"}
    /\ dpc = "list"
    /\ files = <<>>
    /\ idx = 0
    /\ hasErrors = FALSE
    /\ dirErr = ""
    /\ attempts = [i \in 1 .. MaxEntries |-> 0]
    /\ errorLines = 0
    /\ okLines = 0
    /\ ImageIdle

SpecShared == InitShared /\ [][NextBatch]_vars

\* The whole program: a command line, then main.
Str_255_0_0 == <<"2", "5", "5", ",", "0", ",", "0">>
Str_255_255_255 == <<"2", "5", "5", ",", "2", "5", "5", ",", "2", "5", "5">>
Str_255_255_0 == <<"2", "5", "5", ",", "2", "5", "5", ",", "0">>
Str_0_0_0 == <<"0", ",", "0", ",", "0">>
Str_256_0_0 == <<"2", "5", "6", ",", "0", ",", "0">>
Str_m1_0_0 == <<"-", "1", ",", "0", ",", "0">>
Str_red == <<"r", "e", "d">>
Str_1_2 == <<"1", ",", "2">>
Str_sp_1_2_3x == <<" ", "1", ",", " ", "2", ",", "+", "3", "x">>

BgTexts == {Str_255_0_0, Str_255_255_0, Str_256_0_0, Str_red, Str_sp_1_2_3x, <<>>}
TcTexts == {Str_255_255_255, Str_0_0_0, Str_m1_0_0, Str_1_2}

ClassTexts == {"", "cui", "secret", "unclassed", "custom", "topsecret"}

Str_0_255_0 == <<"0", ",", "2", "5", "5", ",", "0">>

\* The custom flags that spell out the colours and the text of a mode of bannerModes.
CustomTwin(p) ==
    CASE p = "cui" -> [text |-> "CUI", bg |-> Str_0_255_0, tc |-> Str_0_0_0]
      [] p = "secret" -> [text |-> "SECRET", bg |-> Str_255_0_0, tc |-> Str_255_255_255]
      [] p = "unclassed" -> [text |-> "UNCLASSIFIED", bg |-> Str_0_0_0, tc |-> Str_255_255_255]

TwinCommandLines ==
    {[c |-> "custom", f |-> f, d |-> d, text |-> CustomTwin(p).text,
      bg |-> CustomTwin(p).bg, tc |-> CustomTwin(p).tc] :
        f \in {"", "in/file1"}, d \in {"", "in"}, p \in {"cui", "secret", "unclassed"}}

\* The custom flags matter, and are varied, only with -c custom.
CommandLines ==
    TwinCommandLines \cup
    {[c |-> c, f |-> f, d |-> d, text |-> "", bg |-> Str_255_0_0, tc |-> Str_255_255_255] :
        c \in ClassTexts, f \in {"", "in/file1"}, d \in {"", "in"}}
    \cup
    {[c |-> "custom", f |-> f, d |-> d, text |-> t, bg |-> bg, tc |-> tc] :
        f \in {"", "in/file1"}, d \in {"", "in"}, t \in {"", "SENSITIVE"},
        bg \in BgTexts, tc \in TcTexts}

MainFiles == {ImageFile("png", 1, 1), ImageFile("jpeg", 2, 1), CorruptFile, SubDir}

MainListings ==
    {<<>>} \cup {<<f>> : f \in MainFiles} \cup {<<f, g>> : f \in MainFiles, g \in MainFiles}

Init ==
    /\ flags \in CommandLines
    /\ dirKind \in {"dir", "file", "missing"}
    /\ inFiles \in (IF dirKind = "dir" THEN MainListings ELSE {<<>>})
    /\ inNames = DefaultNames(inFiles)
    /\ InitOutput
    /\ textWidth = 1
    /\ inkAscent = 1
    /\ mpc = "start"
    /\ exitCode = 0 - 1
    /\ banner = NoBanner
    /\ outputDir = "out"
    /\ bannerHeight \in {0, DefaultBannerHeight}
    /\ loc \in {"center", "corners"}
    /\ DirIdle
    /\ ImageIdle

Next ==
    \/ MainParse
    \/ MainFileMode
    \/ MainFileDone
    \/ MainDirMode
    \/ MainDirDone
    \/ MainEnd
    \/ PD_List
    \/ PD_Skip
    \/ PD_Call
    \/ PD_Result
    \/ PD_Return
    \/ PI_Probe
    \/ PI_Decode
    \/ PI_Canvas
    \/ PI_Labels
    \/ PI_Create
    \/ PI_Encode

Spec == Init /\ [][Next]_vars

\* ===================================================================== claims

\* The image written for imagePath, and the source it was decoded from.
OutputWritten == outFiles[imagePath].state = "image"
OutputCanvas == outFiles[imagePath].img
Source == FileAt(imagePath)
OutputHeight == NewHeight(Source.h, bannerHeight)

\* The labels of the current call have been drawn.
LabelsDrawn ==
    pc \in {"create", "encode"} \/ (pc = "done" /\ err \in {"", "create", "encode"})

\* C1: for every source of width W and height H and every banner height B that
\* processImage accepts, the canvas that is encoded is W wide and H + 2*B high.
C1_EncodedCanvasSize ==
    OutputWritten =>
        /\ Dx(OutputCanvas.Rect) = Source.w
        /\ Dy(OutputCanvas.Rect) = Source.h + 2 * bannerHeight

\* C2: in the finished bitmap every pixel (x, y) of the middle band,
\* bannerHeight <= y < bannerHeight + H, is the source pixel (x, y - bannerHeight),
\* for every banner height and placement: no label writes into that band.
C2_MiddleBandIsSource ==
    OutputWritten =>
        \A p \in DOMAIN OutputCanvas.Pix :
            (bannerHeight <= p[2] /\ p[2] < bannerHeight + Source.h) =>
                OutputCanvas.Pix[p] = SourcePixel(Source.kind, p[1], p[2] - bannerHeight)

\* C3: in the finished bitmap every pixel of the top band (y < bannerHeight) and
\* of the bottom band (y >= outputHeight - bannerHeight) that no glyph inks has
\* the banner's background colour, alpha 255; each band is bannerHeight rows
\* tall and as wide as the source.
C3_BandsAreBackground ==
    OutputWritten =>
        LET inked == Ink(labels, textWidth, inkAscent)
            top == {p \in DOMAIN OutputCanvas.Pix : p[2] < bannerHeight}
            bottom == {p \in DOMAIN OutputCanvas.Pix : p[2] >= OutputHeight - bannerHeight}
        IN  /\ \A p \in (top \cup bottom) \ inked :
                /\ OutputCanvas.Pix[p] = banner.BgColor
                /\ OutputCanvas.Pix[p][4] = 255
            /\ bannerHeight >= 0 =>
                /\ top = (0 .. (Source.w - 1)) \X (0 .. (bannerHeight - 1))
                /\ bottom = (0 .. (Source.w - 1)) \X
                            ((OutputHeight - bannerHeight) .. (OutputHeight - 1))

\* A band pixel outside the ink, on a canvas with both bands and a label on it.
C3_Witness ==
    /\ OutputWritten
    /\ bannerHeight = MaxBannerHeight
    /\ Source.w = 2
    /\ textWidth = 1
    /\ \E p \in DOMAIN OutputCanvas.Pix :
          /\ p[2] < bannerHeight
          /\ p \in Ink(labels, textWidth, inkAscent)
          /\ OutputCanvas.Pix[p] = banner.TextColor
    /\ \E p \in DOMAIN OutputCanvas.Pix :
          /\ p[2] >= OutputHeight - bannerHeight
          /\ p \notin Ink(labels, textWidth, inkAscent)
          /\ OutputCanvas.Pix[p] = banner.BgColor

\* C4: with bannerHeight <= 0 (or a source of zero width or height) the
\* annotation fails and no output image is produced or written.
C4_NonPositiveBannerRejected ==
    bannerHeight <= 0 =>
        /\ outFiles[imagePath] = Absent
        /\ pc = "done" => err # ""

\* C5: two labels for "center", four for "corners"; any other placement string
\* does not fail and gives the labels, at the dots, that "center" gives.
C5_LabelsPerPlacement ==
    LET width == Dx(img.Rect)
        asCenter == LabelPositions("center", width, OutputHeight, bannerHeight, textWidth)
    IN  /\ ~LabelsDrawn => labels = <<>>
        /\ LabelsDrawn =>
            /\ loc = "center" => Len(labels) = 2
            /\ loc = "corners" => Len(labels) = 4
            /\ loc \notin {"center", "corners"} =>
                /\ labels = asCenter
                /\ Len(labels) = 2
                /\ newImg = DrawLabels(BuildCanvas(img, banner, bannerHeight), asCenter,
                                       banner.TextColor, textWidth, inkAscent)
            /\ pc = "create" => err = ""

C5_Witness ==
    /\ pc = "done"
    /\ err = ""
    /\ loc = "diagonal"
    /\ Len(labels) = 2
    /\ OutputWritten

\* C8: an image that is written is encoded in the format its input was decoded
\* as; an input of any other format is turned down with an error before a
\* canvas is built or an output file is created.
C8_FormatPreserved ==
    /\ OutputWritten =>
        /\ outFiles[imagePath].format = format
        /\ format = Source.kind
        /\ format \in {"jpeg", "png"}
    /\ Source.kind \notin {"jpeg", "png"} =>
        /\ newImg = NoImage
        /\ outFiles[imagePath] = Absent
        /\ pc \in {"probe", "open", "done"}
        /\ pc = "done" => err # ""

C8_Witness ==
    /\ pc = "done"
    /\ Source.kind = "jpeg"
    /\ OutputWritten
    /\ outFiles[imagePath].format = "jpeg"

\* The entries of the directory that are files, and those whose image was written.
FileEntries == {i \in DOMAIN inFiles : inFiles[i].kind # "dir"}
WrittenEntries == {i \in DOMAIN inFiles : outFiles[Name(i)].state = "image"}
BatchDone == dpc = "done" /\ dirKind = "dir"

\* C6: processDirectory attempts every entry of the listing that is no directory
\* exactly once, passes over sub-directories, goes on after an entry fails, and
\* returns an error if and only if some entry failed.
C6_EveryFileAttemptedOnce ==
    /\ \A i \in DOMAIN attempts : attempts[i] <= 1
    /\ BatchDone =>
        /\ \A i \in DOMAIN inFiles : attempts[i] = IF i \in FileEntries THEN 1 ELSE 0
        /\ errorLines + okLines = Cardinality(FileEntries)
        /\ errorLines = Cardinality(FileEntries \ WrittenEntries)
        /\ (dirErr # "") <=> (FileEntries \ WrittenEntries # {})

\* A failing file first, then a sub-directory, then an image that is written.
C6_Witness ==
    /\ BatchDone
    /\ Len(inFiles) = 3
    /\ inFiles[1].kind = "corrupt"
    /\ inFiles[2].kind = "dir"
    /\ inFiles[3].kind = "png"
    /\ attempts[3] = 1
    /\ 3 \in WrittenEntries
    /\ dirErr # ""

\* C7: after a batch with n valid images and m >= 1 failing files the output
\* directory holds a file for each success and for no failure (n files), one
\* failure is reported per failing file, and the batch reports failure.
C7_OutputsOnlyForSuccesses ==
    (BatchDone /\ errorLines >= 1) =>
        /\ Cardinality({i \in DOMAIN inFiles : outFiles[Name(i)] # Absent}) = okLines
        /\ errorLines = Cardinality(FileEntries) - okLines
        /\ dirErr # ""

\* C9: with both of -f and -d, or with neither, the program exits with a
\* non-zero code and processes no image.
C9_ExactlyOneInput ==
    ((flags.f = "") <=> (flags.d = "")) =>
        /\ mpc \in {"start", "exited"}
        /\ mpc = "exited" => exitCode = 1
        /\ pc = "idle"
        /\ dpc = "idle"
        /\ fontLoads = 0
        /\ \A i \in DOMAIN attempts : attempts[i] = 0
        /\ \A n \in DOMAIN outFiles : outFiles[n] = Absent

C9_Witness ==
    /\ mpc = "exited"
    /\ exitCode = 1
    /\ flags.c = "cui"
    /\ flags.f # ""
    /\ flags.d # ""
    /\ Len(inFiles) = 2

\* The command line is valid: a known classification, the custom flags
\* complete and parsable, one input, and that input there.
ArgsValid ==
    /\ flags.c \in {"cui", "secret", "unclassed", "custom"}
    /\ flags.c = "custom" =>
        /\ flags.text # ""
        /\ ~parseRGB(flags.bg).err
        /\ ~parseRGB(flags.tc).err
    /\ (flags.f = "") # (flags.d = "")
    /\ flags.f # "" => Len(inFiles) >= 1
    /\ flags.d # "" => dirKind = "dir"

\* The images main was asked to process: the file of -f, or the files of -d.
Asked == IF flags.f # "" THEN {1} \cap DOMAIN inFiles ELSE FileEntries

\* C10: the exit code is 0 exactly when the arguments are valid and every image
\* the program was asked to process succeeded, and non-zero otherwise.
C10_ExitCode ==
    mpc = "exited" =>
        /\ exitCode \in {0, 1}
        /\ exitCode = 0 <=> (ArgsValid /\ Asked \subseteq WrittenEntries)

C10_Witness ==
    /\ mpc = "exited"
    /\ exitCode = 1
    /\ ArgsValid
    /\ flags.c = "custom"
    /\ flags.d # ""
    /\ WrittenEntries # {}
    /\ ~(Asked \subseteq WrittenEntries)

\* The three modes a classification keyword selects.
Keywords == {"cui", "secret", "unclassed"}

\* The command line asks for a custom banner with the values of mode p.
IsTwin(fl, p) ==
    /\ fl.c = "custom"
    /\ fl.text = CustomTwin(p).text
    /\ fl.bg = CustomTwin(p).bg
    /\ fl.tc = CustomTwin(p).tc

\* The file processImage writes for entry i when it is handed banner mode bm.
OutputWith(bm, i) ==
    LET src == SourceImage(inFiles[i])
        width == Dx(src.Rect)
        newHeight == NewHeight(Dy(src.Rect), bannerHeight)
        dots == LabelPositions(loc, width, newHeight, bannerHeight, textWidth)
    IN  Written(inFiles[i].kind,
                DrawLabels(BuildCanvas(src, bm, bannerHeight), dots, bm.TextColor,
                           textWidth, inkAscent))

\* C11: a custom banner whose background colour, text colour and text are those
\* of a preset gives, for every source, banner height and placement, the
\* output that preset gives: processImage is handed the same BannerMode, and
\* every image written is the one written for that mode.
C11_CustomEqualsPreset ==
    \A p \in Keywords :
        (flags.c = p \/ IsTwin(flags, p)) =>
            /\ pc # "idle" => banner = bannerModes(p)
            /\ \A i \in DOMAIN inFiles :
                  outFiles[Name(i)].state = "image" => outFiles[Name(i)] = OutputWith(bannerModes(p), i)

\* A custom banner spelled like "cui" has written an image with both bands.
C11_Witness ==
    /\ IsTwin(flags, "cui")
    /\ mpc = "exited"
    /\ exitCode = 0
    /\ bannerHeight = DefaultBannerHeight
    /\ outFiles[Name(1)].state = "image"
    /\ outFiles[Name(1)].img.Pix[<<0, 0>>] = <<0, 255, 0, 255>>

\* Nothing has been processed: no call of processImage or processDirectory, no
\* font face, no file in the output directory.
NothingProcessed ==
    /\ pc = "idle"
    /\ dpc = "idle"
    /\ fontLoads = 0
    /\ \A i \in DOMAIN attempts : attempts[i] = 0
    /\ \A n \in DOMAIN outFiles : outFiles[n] = Absent

\* The banner the documentation gives for a keyword: background, text colour
\* (both opaque) and text.
Documented(c) ==
    CASE c = "cui" -> [BgColor |-> <<0, 255, 0, 255>>, TextColor |-> <<0, 0, 0, 255>>,
                       Text |-> "CUI"]
      [] c = "secret" -> [BgColor |-> <<255, 0, 0, 255>>,
                          TextColor |-> <<255, 255, 255, 255>>, Text |-> "SECRET"]
      [] c = "unclassed" -> [BgColor |-> <<0, 0, 0, 255>>,
                             TextColor |-> <<255, 255, 255, 255>>, Text |-> "UNCLASSIFIED"]

\* C12: "cui" gives a green banner with black text "CUI", "secret" a red
\* banner with white text "SECRET", "unclassed" a black banner with white text
\* "UNCLASSIFIED"; any keyword other than these three and "custom" ends the
\* program with a non-zero exit code before any image is processed.
C12_KeywordBanners ==
    /\ flags.c \in Keywords =>
        /\ pc # "idle" => banner = Documented(flags.c)
        /\ \A i \in DOMAIN inFiles :
              outFiles[Name(i)].state = "image" =>
                LET out == outFiles[Name(i)].img
                    inked == Ink(LabelPositions(loc, Dx(out.Rect), Dy(out.Rect),
                                                bannerHeight, textWidth),
                                 textWidth, inkAscent)
                IN  \A q \in DOMAIN out.Pix :
                        (q[2] < bannerHeight \/ q[2] >= Dy(out.Rect) - bannerHeight) =>
                            out.Pix[q] = IF q \in inked
                                         THEN Documented(flags.c).TextColor
                                         ELSE Documented(flags.c).BgColor
    /\ flags.c \notin Keywords \cup {"custom"} =>
        /\ mpc \in {"start", "exited"}
        /\ mpc = "exited" => exitCode # 0
        /\ NothingProcessed

\* "secret" has written an image: red in the bands, white where a label inks.
C12_Witness ==
    /\ flags.c = "secret"
    /\ mpc = "exited"
    /\ bannerHeight = DefaultBannerHeight
    /\ outFiles[Name(1)].state = "image"
    /\ outFiles[Name(1)].img.Pix[<<0, 0>>] = <<255, 0, 0, 255>>
    /\ \E q \in DOMAIN outFiles[Name(1)].img.Pix :
          outFiles[Name(1)].img.Pix[q] = <<255, 255, 255, 255>>

\* C13 as stated: in corners mode the margin is 0.05 * imageWidth rounded to the
\* nearest integer (20 * margin is within 10 of the width), the left labels
\* are at x = margin and the right labels at x = imageWidth - margin - textWidth.
C13_MarginRounded ==
    (LabelsDrawn /\ loc = "corners") =>
        LET W == Dx(img.Rect)
            m == labels[1][1]
        IN  /\ 20 * m - W <= 10
            /\ W - 20 * m <= 10
            /\ labels[3][1] = m
            /\ labels[2][1] = W - m - textWidth
            /\ labels[4][1] = W - m - textWidth

\* C13, amended: in corners mode the margin is 0.05 * imageWidth with the
\* fraction dropped (20 * margin <= imageWidth < 20 * margin + 20), the left
\* labels are at x = margin and the right labels at x = imageWidth - margin -
\* textWidth.
C13_MarginTruncated ==
    (LabelsDrawn /\ loc = "corners") =>
        LET W == Dx(img.Rect)
            m == labels[1][1]
        IN  /\ Len(labels) = 4
            /\ 20 * m <= W
            /\ W < 20 * m + 20
            /\ labels[3][1] = m
            /\ labels[2][1] = W - m - textWidth
            /\ labels[4][1] = W - m - textWidth

\* Corner labels on an image 20 wide: margin 1, right labels at 19 - textWidth.
C13_Witness ==
    /\ pc = "done"
    /\ err = ""
    /\ loc = "corners"
    /\ Dx(img.Rect) = 20
    /\ textWidth = 2
    /\ labels[1][1] = 1
    /\ labels[2][1] = 17
    /\ OutputWritten

\* C14: for every banner height B, even or odd, and both placements, the top
\* labels are drawn at y = B/2 + 10 and the bottom labels at
\* y = (outputHeight - B) + B/2 + 10: the top anchor shifted by outputHeight - B.
C14_LabelBaselines ==
    (LabelsDrawn /\ bannerHeight >= 1) =>
        LET B == bannerHeight
            top == (B \div 2) + 10
            bottom == (OutputHeight - B) + (B \div 2) + 10
            n == Len(labels) \div 2
        IN  \A k \in DOMAIN labels :
                labels[k][2] = IF k <= n THEN top ELSE bottom

\* C15: in center mode, and for any placement other than "corners", both labels
\* are drawn at the same x = imageWidth/2 - textWidth/2; the computation never
\* fails, also when textWidth exceeds imageWidth and x is negative: every
\* decoded image gets its two labels, and the ink that falls on the canvas is
\* drawn.
C15_CenterX ==
    loc # "corners" =>
        /\ (pc \in {"create", "encode", "done"} /\ format \in {"jpeg", "png"}) =>
                /\ Len(labels) = 2
                /\ pc = "done" => err \in {"", "create", "encode"}
        /\ LabelsDrawn =>
            LET W == Dx(img.Rect)
                x == (W \div 2) - (textWidth \div 2)
            IN  /\ labels[1][1] = x
                /\ labels[2][1] = x
                /\ \A k \in 1 .. 2 :
                      \A q \in InkBox(x, labels[k][2], textWidth, inkAscent) \cap
                               DOMAIN newImg.Pix :
                          newImg.Pix[q] = banner.TextColor

\* A label wider than the image: it starts left of the canvas.
C15_Witness ==
    /\ pc = "done"
    /\ err = ""
    /\ loc = "center"
    /\ Source.w = 1
    /\ textWidth = 2
    /\ labels[1][1] = 0 - 1
    /\ labels[2][1] = 0 - 1
    /\ OutputWritten

\* A colour text with a channel below 0 or above 255.
ChannelOutOfRange(str) ==
    LET v == Sscanf3(str)
    IN  /\ v.ok
        /\ \E n \in {v.r, v.g, v.b} : n < 0 \/ n > 255

\* A colour with every channel in 0..255 and alpha 255.
OpaqueColour(c) ==
    /\ \A k \in 1 .. 3 : c[k] \in 0 .. 255
    /\ c[4] = 255

\* C16: every BannerMode that reaches processImage, preset or custom, has all
\* channels of both colours within 0..255, alpha 255 and a non-empty text; a
\* colour text with a channel below 0 or above 255 makes parseRGB fail and the
\* program exit non-zero without processing anything.
C16_BannerWellFormed ==
    /\ pc # "idle" =>
        /\ OpaqueColour(banner.BgColor)
        /\ OpaqueColour(banner.TextColor)
        /\ banner.Text # ""
    /\ (flags.c = "custom" /\ (ChannelOutOfRange(flags.bg) \/ ChannelOutOfRange(flags.tc))) =>
        /\ parseRGB(flags.bg).err \/ parseRGB(flags.tc).err
        /\ mpc \in {"start", "exited"}
        /\ mpc = "exited" => exitCode # 0
        /\ NothingProcessed

\* A custom banner scanned from " 1, 2,+3x" has been through processImage.
C16_Witness ==
    /\ flags.c = "custom"
    /\ flags.bg = Str_sp_1_2_3x
    /\ banner.BgColor = <<1, 2, 3, 255>>
    /\ banner.Text = "SENSITIVE"
    /\ pc = "done"
    /\ err = ""

\* C17: in a directory batch the font face is constructed once and reused for
\* every image: the number of constructions during one batch never exceeds 1,
\* however many images the directory holds.
C17_FontLoadedOnce ==
    dpc # "idle" => fontLoads <= 1

\* C18: the writability check leaves the output directory as it was: no step
\* of processImage creates, truncates or removes a file of the output
\* directory other than the output file named after the input; test_write.tmp
\* is there afterwards only if it was there before, with the content it had.
C18_ProbeLeavesNoTrace ==
    [][\A n \in DOMAIN outFiles : n # imagePath => outFiles'[n] = outFiles[n]]_vars

\* C19: the files a batch processes are those of the one listing taken before
\* the first image is processed, each attempted at most once, also when the
\* output directory is the input directory; every entry is read with the
\* content it had at the listing, before any write of its own step, so what is
\* decoded is the original and what is written is annotated once.
C19_ListingFixed ==
    /\ dpc \in {"loop", "call"} => files = ReadDir(inFiles)
    /\ \A i \in DOMAIN attempts : attempts[i] <= 1
    /\ (dpc = "call" /\ pc = "open") => FileAt(imagePath) = inFiles[idx]
    /\ (dpc = "call" /\ pc \in {"canvas", "labels", "create", "encode"}) =>
            img = SourceImage(inFiles[idx])
    /\ \A i \in DOMAIN inFiles :
          outFiles[inNames[i]].state = "image" =>
              outFiles[inNames[i]] = OutputWith(banner, i)

====
